---- MODULE Spec2Model ----
(***************************************************************************)
(* Boids demo (src/main.js): the per-frame flocking update on two          *)
(* double-buffered textures (position, velocity), the food / predator      *)
(* scheduler, the GUI tunables and the animation loop.                     *)
(*                                                                         *)
(* Numbers are fixed point.  A length, speed or force of u source units is *)
(* the integer u * FP; a weight, freedomFactor or timeScale of w is        *)
(* w * 100; foodOrbitSpeed s is s * 1000; the clock and raw frame times    *)
(* are milliseconds; the simulation delta and the predator timers are in   *)
(* 1/100000 s (milliseconds times timeScale-hundredths); angles are        *)
(* milliradians; texture coordinates and rand() results are in 1/10000     *)
(* and 1/1000.  Every product is truncated toward zero.  A vector is a     *)
(* record [x, y, z, nan]; nan marks a vector whose components are NaN.     *)
(***************************************************************************)
EXTENDS Integers, Sequences, FiniteSets, TLC

\* ------------------------------------------------------------------ bounds
FP == 10             \* fixed-point steps per source unit of length
WIDTH == 6           \* texture width of the model (128 in the source)
NumSamples == 3      \* neighbour samples per agent (30 in the source)
MAX_FOOD == 1        \* food sources of the model (30 in the source)
MAX_PREDATORS == 1   \* predators of the model (16 in the source)
MaxFrames == 3       \* frames a run of the model executes
MaxGuiChanges == 1   \* GUI changes a run of the model performs

\* ------------------------------------------------------- program constants
BOUNDS == 800 * FP
BOUNDS_HALF == BOUNDS \div 2
PREDATOR_LIFETIME == 20 * 100000
PI == 3142
MaxFrameDelta == 100

\* -------------------------------------------------------------- arithmetic
Abs(a) == IF a < 0 THEN -a ELSE a
Sgn(a) == IF a < 0 THEN -1 ELSE IF a > 0 THEN 1 ELSE 0
Min(a, b) == IF a < b THEN a ELSE b
Max(a, b) == IF a > b THEN a ELSE b

\* a / b truncated toward zero (b > 0)
TruncDiv(a, b) == Sgn(a) * (Abs(a) \div b)

\* x * a / b truncated toward zero (a >= 0, b > 0); a large x is split so that
\* no product leaves the 32-bit range
MulDiv(x, a, b) ==
    IF Abs(x) <= 2000000000 \div Max(a, 1)
    THEN Sgn(x) * ((Abs(x) * a) \div b)
    ELSE Sgn(x) * ((Abs(x) \div b) * a + (((Abs(x) % b) * a) \div b))

\* GLSL mod(x, y) = x - y * floor(x / y)
Mod(x, y) == x % y

RECURSIVE SqrtSearch(_, _, _)
SqrtSearch(n, lo, hi) ==
    IF lo >= hi THEN lo
    ELSE LET mid == (lo + hi) \div 2
         IN  IF mid * mid >= n THEN SqrtSearch(n, lo, mid)
             ELSE SqrtSearch(n, mid + 1, hi)

\* the least c with c * c >= n (0 <= n < 2^31)
SqrtCeil(n) == SqrtSearch(n, 0, 46340)

\* sin(a) * 1000 for a in milliradians, 0 <= a <= PI (Bhaskara's rational form)
SinHalfTurn(a) ==
    LET p == a * (PI - a)
    IN  Min(1000, p \div ((5 * PI * PI - 4 * p) \div 16000))

Sin(a) ==
    LET r == a % (2 * PI)
    IN  IF r <= PI THEN SinHalfTurn(r) ELSE -SinHalfTurn(r - PI)

Cos(a) == Sin(a + PI \div 2)

\* ----------------------------------------------------------------- vectors
Vec(x, y, z) == [x |-> x, y |-> y, z |-> z, nan |-> FALSE]
Zero == Vec(0, 0, 0)
NaNVec == [x |-> 0, y |-> 0, z |-> 0, nan |-> TRUE]

Add(a, b) == IF a.nan \/ b.nan THEN NaNVec ELSE Vec(a.x + b.x, a.y + b.y, a.z + b.z)
Sub(a, b) == IF a.nan \/ b.nan THEN NaNVec ELSE Vec(a.x - b.x, a.y - b.y, a.z - b.z)

\* v * a / b, component by component
Scale(v, a, b) ==
    IF v.nan THEN NaNVec ELSE Vec(MulDiv(v.x, a, b), MulDiv(v.y, a, b), MulDiv(v.z, a, b))

MaxAbs(v) == Max(Abs(v.x), Max(Abs(v.y), Abs(v.z)))
Len2(v) == v.x * v.x + v.y * v.y + v.z * v.z

\* length(v) > m, length(v) < m, length(v) > 0; every comparison with NaN is false
LenGT(v, m) == ~v.nan /\ (MaxAbs(v) > m \/ Len2(v) > m * m)
LenLT(v, m) == ~v.nan /\ MaxAbs(v) < m /\ Len2(v) < m * m
LenPos(v) == ~v.nan /\ MaxAbs(v) > 0

\* v brought to a magnitude whose square fits: shrunk when large, grown when tiny
Rescale(v) ==
    IF MaxAbs(v) > 10000 THEN Scale(v, 1, MaxAbs(v) \div 10000 + 1)
    ELSE IF MaxAbs(v) < 100 THEN Scale(v, 100, 1)
    ELSE v

\* length(v), rounded up
Length(v) ==
    IF MaxAbs(v) > 10000
    THEN SqrtCeil(Len2(Scale(v, 1, MaxAbs(v) \div 10000 + 1))) * (MaxAbs(v) \div 10000 + 1)
    ELSE SqrtCeil(Len2(v))

\* normalize(v) * m.  normalize of the zero vector is undefined in GLSL: builds
\* yield NaN (0 * inversesqrt(0)) or the zero vector; ub names the outcome.
NormalizeTo(v, m, ub) ==
    IF v.nan THEN NaNVec
    ELSE IF MaxAbs(v) = 0 THEN (IF ub = "nan" THEN NaNVec ELSE Zero)
    ELSE LET s == Rescale(v)
             l == SqrtCeil(Len2(s))
         IN  Vec(TruncDiv(m * s.x, l), TruncDiv(m * s.y, l), TruncDiv(m * s.z, l))

\* ------------------------------------------------------------ the textures
NUM_BIRDS == WIDTH * WIDTH
Agents == 0 .. NUM_BIRDS - 1

\* gl_FragCoord.xy / resolution.xy of texel i, in 1/10000
Uv(i) ==
    << ((2 * (i % WIDTH) + 1) * 10000) \div (2 * WIDTH),
       ((2 * (i \div WIDTH) + 1) * 10000) \div (2 * WIDTH) >>

\* the texel texture2D reads at a coordinate in [0, 1) (nearest filtering)
Texel(suv) == ((suv[2] * WIDTH) \div 10000) * WIDTH + (suv[1] * WIDTH) \div 10000

\* rand(co) in 1/1000: the shader's sin hash, as an integer hash of the same argument
rand(co) == (((co[1] * 13 + co[2] * 78) % 6283) * 4376) % 1000

\* limit(vec, maxVal)
limit(vec, maxVal, ub) == IF LenGT(vec, maxVal) THEN NormalizeTo(vec, maxVal, ub) ELSE vec

\* --------------------------------------------------- velocityShader: main()
\* sampleUV of sample k of texel i
SampleUV(i, k) ==
    LET uv == Uv(i)
    IN  << (uv[1] + rand(<<uv[1] + 1000 * k, uv[2] + 1000 * k>>)) % 10000,
           (uv[2] + rand(<<uv[1] - 1000 * k, uv[2] - 1000 * k>>)) % 10000 >>

NoNeighbours ==
    [separationForce |-> Zero, separationCount |-> 0,
     avgVelocity |-> Zero, alignCount |-> 0,
     avgPosition |-> Zero, cohesionCount |-> 0]

\* normalize(diff) / max(dist, 0.01), times 1000000 (0.01 is below one step of FP)
SeparationTerm(diff) ==
    LET d2 == Len2(diff)
    IN  Vec(TruncDiv(diff.x * 1000000, d2), TruncDiv(diff.y * 1000000, d2),
            TruncDiv(diff.z * 1000000, d2))

\* the loop body without its dist > 0.0 test: a sample at distance 0 is counted
\* for alignment and cohesion
SampleUntested(acc, i, k, P, V, U) ==
    LET n == Texel(SampleUV(i, k))
        diff == Sub(P[i], P[n])
        sep == LenPos(diff) /\ LenLT(diff, U.separationDistance)
        ali == LenLT(diff, U.alignmentDistance)
        coh == LenLT(diff, U.cohesionDistance)
    IN  [separationForce |->
             IF sep THEN Add(acc.separationForce, SeparationTerm(diff))
             ELSE acc.separationForce,
         separationCount |-> acc.separationCount + (IF sep THEN 1 ELSE 0),
         avgVelocity |-> IF ali THEN Add(acc.avgVelocity, V[n]) ELSE acc.avgVelocity,
         alignCount |-> acc.alignCount + (IF ali THEN 1 ELSE 0),
         avgPosition |-> IF coh THEN Add(acc.avgPosition, P[n]) ELSE acc.avgPosition,
         cohesionCount |-> acc.cohesionCount + (IF coh THEN 1 ELSE 0)]

\* one pass of the sampling loop's body: sample k of texel i
Sample(acc, i, k, P, V, U) ==
    LET n == Texel(SampleUV(i, k))
        neighborPos == P[n]
        neighborVel == V[n]
        diff == Sub(P[i], neighborPos)
        sep == LenLT(diff, U.separationDistance)
        ali == LenLT(diff, U.alignmentDistance)
        coh == LenLT(diff, U.cohesionDistance)
    IN  IF ~LenPos(diff) THEN acc
        ELSE [separationForce |->
                  IF sep THEN Add(acc.separationForce, SeparationTerm(diff))
                  ELSE acc.separationForce,
              separationCount |-> acc.separationCount + (IF sep THEN 1 ELSE 0),
              avgVelocity |-> IF ali THEN Add(acc.avgVelocity, neighborVel) ELSE acc.avgVelocity,
              alignCount |-> acc.alignCount + (IF ali THEN 1 ELSE 0),
              avgPosition |-> IF coh THEN Add(acc.avgPosition, neighborPos) ELSE acc.avgPosition,
              cohesionCount |-> acc.cohesionCount + (IF coh THEN 1 ELSE 0)]

\* the accumulators after the first k passes of the sampling loop
RECURSIVE Neighbours(_, _, _, _, _)
Neighbours(k, i, P, V, U) ==
    IF k = 0 THEN NoNeighbours
    ELSE Sample(Neighbours(k - 1, i, P, V, U), i, k - 1, P, V, U)

SeparationSteering(acc, velocity, U, ub) ==
    IF acc.separationCount > 0
    THEN LET separationForce == Scale(acc.separationForce, 1, acc.separationCount)
         IN  IF LenPos(separationForce)
             THEN Scale(Sub(NormalizeTo(separationForce, U.maxSpeed, ub), velocity),
                        U.separationWeight, 100)
             ELSE Zero
    ELSE Zero

AlignmentSteering(acc, velocity, U, ub) ==
    IF acc.alignCount > 0
    THEN LET avgVelocity == Scale(acc.avgVelocity, 1, acc.alignCount)
             desiredAlign == NormalizeTo(avgVelocity, U.maxSpeed, ub)
         IN  Scale(Sub(desiredAlign, velocity), U.alignmentWeight, 100)
    ELSE Zero

CohesionSteering(acc, position, velocity, U, ub) ==
    IF acc.cohesionCount > 0
    THEN LET avgPosition == Scale(acc.avgPosition, 1, acc.cohesionCount)
             vecToCenter == Sub(avgPosition, position)
         IN  IF LenPos(vecToCenter)
             THEN Scale(Sub(NormalizeTo(vecToCenter, U.maxSpeed, ub), velocity),
                        U.cohesionWeight, 100)
             ELSE Zero
    ELSE Zero

\* the food loop: foodSteeringForce and foodCount after the first j sources
RECURSIVE FoodLoop(_, _, _, _, _)
FoodLoop(j, position, velocity, U, ub) ==
    IF j = 0 THEN [force |-> Zero, count |-> 0]
    ELSE LET acc == FoodLoop(j - 1, position, velocity, U, ub)
             vecToFood == Sub(U.foodPositions[j], position)
         IN  IF U.foodActive[j] /\ LenPos(vecToFood) /\ LenLT(vecToFood, U.foodRadius)
             THEN [force |-> Add(acc.force,
                                 Sub(NormalizeTo(vecToFood, U.maxSpeed, ub), velocity)),
                   count |-> acc.count + 1]
             ELSE acc

FoodSteering(position, velocity, U, ub) ==
    LET acc == FoodLoop(MAX_FOOD, position, velocity, U, ub)
    IN  IF acc.count > 0
        THEN Scale(Scale(acc.force, 1, acc.count), U.foodWeight, 100)
        ELSE Zero

\* the predator loop: predatorSteeringForce and predatorCount after the first j
\* predators; each term is amplified by predatorRadius / max(dist, 0.1)
RECURSIVE PredatorLoop(_, _, _, _, _)
PredatorLoop(j, position, velocity, U, ub) ==
    IF j = 0 THEN [force |-> Zero, count |-> 0]
    ELSE LET acc == PredatorLoop(j - 1, position, velocity, U, ub)
             vecFromPredator == Sub(position, U.predatorPositions[j])
         IN  IF U.predatorActive[j] /\ LenPos(vecFromPredator)
                /\ LenLT(vecFromPredator, U.predatorRadius)
             THEN [force |->
                       Add(acc.force,
                           Scale(Sub(NormalizeTo(vecFromPredator, U.maxSpeed, ub), velocity),
                                 U.predatorRadius,
                                 Max(Length(vecFromPredator), Max(FP \div 10, 1)))),
                   count |-> acc.count + 1]
             ELSE acc

\* the predator force with its sign turned: towards the predators
PredatorSteeringToward(position, velocity, U, ub) ==
    LET acc == PredatorLoop(MAX_PREDATORS, position, velocity, U, ub)
    IN  IF acc.count > 0
        THEN Scale(Scale(acc.force, 1, acc.count), -U.predatorWeight, 100)
        ELSE Zero

PredatorSteering(position, velocity, U, ub) ==
    LET acc == PredatorLoop(MAX_PREDATORS, position, velocity, U, ub)
    IN  IF acc.count > 0
        THEN Scale(Scale(acc.force, 1, acc.count), U.predatorWeight, 100)
        ELSE Zero

\* the random "freedom" force: randomSteer * 0.5 when rand(uv + time * 0.1) > 0.6
FreedomSteering(i, U) ==
    LET uv == Uv(i)
        t == U.time
    IN  IF rand(<<uv[1] + t, uv[2] + t>>) > 600
        THEN LET angle == TruncDiv((rand(<<uv[1] + 2 * t, uv[2] + 2 * t>>) - 500)
                                       * 2 * PI * U.freedomFactor, 1000000)
                 r3 == rand(<<uv[1] + 3 * t, uv[2] + 3 * t>>)
             IN  Vec(TruncDiv(Cos(angle) * FP, 2000), TruncDiv(Sin(angle) * FP, 2000),
                     TruncDiv((r3 - 500) * FP, 4000))
        ELSE Zero

\* totalSteeringForce before limit()
UnlimitedSteeringForce(i, P, V, U, ub) ==
    LET position == P[i]
        velocity == V[i]
        acc == Neighbours(NumSamples, i, P, V, U)
    IN  Add(Add(Add(SeparationSteering(acc, velocity, U, ub),
                    AlignmentSteering(acc, velocity, U, ub)),
                Add(CohesionSteering(acc, position, velocity, U, ub),
                    FoodSteering(position, velocity, U, ub))),
            Add(PredatorSteering(position, velocity, U, ub), FreedomSteering(i, U)))

\* totalSteeringForce = limit(totalSteeringForce, maxSteerForce); MASS is 1
TotalSteeringForce(i, P, V, U, ub) ==
    limit(UnlimitedSteeringForce(i, P, V, U, ub), U.maxSteerForce, ub)

\* velocity += acceleration * delta; velocity = limit(velocity, maxSpeed)
Integrate(velocity, acceleration, U, ub) ==
    limit(Add(velocity, Scale(acceleration, U.delta, 100000)), U.maxSpeed, ub)

\* gl_FragColor of the velocity shader at texel i
VelocityShader(i, P, V, U, ub) ==
    Integrate(V[i], TotalSteeringForce(i, P, V, U, ub), U, ub)

\* --------------------------------------------------- positionShader: main()
wrapAround(pos) ==
    IF pos.nan THEN NaNVec
    ELSE Vec(Mod(pos.x + BOUNDS_HALF, BOUNDS) - BOUNDS_HALF,
             Mod(pos.y + BOUNDS_HALF, BOUNDS) - BOUNDS_HALF,
             Mod(pos.z + BOUNDS_HALF, BOUNDS) - BOUNDS_HALF)

PositionShader(i, P, V, U) == wrapAround(Add(P[i], Scale(V[i], U.delta, 100000)))

\* ----------------------------------------------------- gpuCompute.compute()
\* One variable's pass: every texel of the target is the shader's output on the
\* textures its dependencies bind, which are both variables' render targets of
\* the current index (setVariableDependencies: position and velocity for both).
VelocityPass(P, V, U, ub) == [i \in Agents |-> VelocityShader(i, P, V, U, ub)]
PositionPass(P, V, U) == [i \in Agents |-> PositionShader(i, P, V, U)]

\* the index of the render targets a pass reads, and of those it writes
ReadIndex(current) == current
WriteIndex(current) == 1 - current

\* ---------------------------------------------------------------- PARAMS
Tunables ==
    {"separationDistance", "alignmentDistance", "cohesionDistance", "freedomFactor",
     "separationWeight", "alignmentWeight", "cohesionWeight", "predatorWeight",
     "foodWeight", "predatorRadius", "foodRadius", "foodOrbitSpeed",
     "maxSpeed", "maxSteerForce", "timeScale"}

PARAMS0 ==
    [separationDistance |-> 10 * FP, alignmentDistance |-> 40 * FP,
     cohesionDistance |-> 40 * FP, freedomFactor |-> 1,
     separationWeight |-> 40, alignmentWeight |-> 400, cohesionWeight |-> 500,
     predatorWeight |-> 10, foodWeight |-> 100,
     predatorRadius |-> 70 * FP, foodRadius |-> 150 * FP, foodOrbitSpeed |-> 200,
     maxSpeed |-> 100 * FP, maxSteerForce |-> 25 * FP, timeScale |-> 100]

\* the tunables whose GUI controller calls updateUniforms on a change
OnChangeUpdateUniforms == Tunables \ {"timeScale"}

\* the uniforms updateUniforms() writes
UpdatedUniforms ==
    {"separationDistance", "alignmentDistance", "cohesionDistance", "freedomFactor",
     "separationWeight", "alignmentWeight", "cohesionWeight", "predatorWeight",
     "maxSpeed", "maxSteerForce", "foodWeight", "foodRadius", "foodOrbitSpeed",
     "predatorRadius"}

\* an updateUniforms() that lacks the maxSpeed line
updateUniformsPartial(params, uniforms) ==
    [k \in DOMAIN uniforms |->
        IF k \in UpdatedUniforms \ {"maxSpeed"} THEN params[k] ELSE uniforms[k]]

updateUniforms(params, uniforms) ==
    [k \in DOMAIN uniforms |-> IF k \in UpdatedUniforms THEN params[k] ELSE uniforms[k]]

\* the values the model's GUI sets a tunable to (inside the controller's range)
GuiValues(k) ==
    CASE k = "separationDistance" -> {20 * FP}
      [] k = "alignmentDistance" -> {10 * FP}
      [] k = "cohesionDistance" -> {10 * FP}
      [] k = "freedomFactor" -> {200}
      [] k = "separationWeight" -> {0}
      [] k = "alignmentWeight" -> {0}
      [] k = "cohesionWeight" -> {0}
      [] k = "predatorWeight" -> {1500}
      [] k = "foodWeight" -> {0}
      [] k = "predatorRadius" -> {200 * FP}
      [] k = "foodRadius" -> {10 * FP}
      [] k = "foodOrbitSpeed" -> {5000}
      [] k = "maxSpeed" -> {1 * FP}
      [] k = "maxSteerForce" -> {40 * FP}
      [] k = "timeScale" -> {0, 1000}

\* ------------------------------------------------------ food and predators
\* getRandomPosition() for three draws of Math.random()
getRandomPosition(r) ==
    Vec((r[1] * BOUNDS) \div 1000 - BOUNDS_HALF,
        (r[2] * ((BOUNDS * 6) \div 10)) \div 1000 - (BOUNDS_HALF * 3) \div 10,
        (r[3] * BOUNDS) \div 1000 - BOUNDS_HALF)

\* orbitParams for six draws of Math.random()
OrbitParams(r) ==
    [radius |-> (BOUNDS_HALF * (300 + (r[1] * 6) \div 10)) \div 1000,
     speedFactor |-> 80 + (r[2] * 4) \div 100,
     phase |-> (r[3] * 2 * PI) \div 1000,
     vertAmp |-> (BOUNDS_HALF * (100 + (r[4] * 3) \div 10)) \div 1000,
     vertFreq |-> 30 + (r[5] * 4) \div 100,
     vertPhase |-> (r[6] * 2 * PI) \div 1000]

\* the food position of updateAttractorsPredators at clock time t (ms)
FoodPosition(t, params, foodOrbitSpeed) ==
    LET angle == MulDiv(t * foodOrbitSpeed, params.speedFactor, 100000) + params.phase
        vert == MulDiv(t * foodOrbitSpeed, params.vertFreq, 100000) + params.vertPhase
    IN  Vec(TruncDiv(params.radius * Cos(angle), 1000),
            TruncDiv(params.vertAmp * Sin(vert), 1000),
            TruncDiv(params.radius * Sin(angle), 1000))

\* the initial food position of initAttractorsPredators
InitialFoodPosition(params) ==
    Vec(TruncDiv(params.radius * Cos(params.phase), 1000),
        TruncDiv(params.vertAmp * Sin(params.vertPhase), 1000),
        TruncDiv(params.radius * Sin(params.phase), 1000))

\* a food loop that advances the stored phase instead of using the time
UpdateFoodDrift(food, t, params) ==
    [i \in DOMAIN food |->
        IF food[i].active
        THEN LET advanced == [food[i].orbitParams EXCEPT
                                 !.phase = (@ + params.foodOrbitSpeed) % (2 * PI)]
             IN  [food[i] EXCEPT !.orbitParams = advanced,
                                 !.position = FoodPosition(0, advanced, params.foodOrbitSpeed)]
        ELSE food[i]]

\* the food loop of updateAttractorsPredators
UpdateFood(food, t, params) ==
    [i \in DOMAIN food |->
        IF food[i].active
        THEN [food[i] EXCEPT
                 !.position = FoodPosition(t, food[i].orbitParams, params.foodOrbitSpeed)]
        ELSE food[i]]

\* a relocation test that lets a timer of exactly 0 pass
RelocatesStrict(pred, dt) == pred.active /\ pred.timer - dt < 0

\* whether a predator relocates in an update with this delta
Relocates(pred, dt) == pred.active /\ pred.timer - dt <= 0

\* a reset that adds the jitter without taking the 4 s off
ResetTimerUncentred(r) == PREDATOR_LIFETIME + (r * 8 * 100000) \div 1000

\* the timer after a relocation, for one draw of Math.random()
ResetTimer(r) == PREDATOR_LIFETIME + (r * 8 * 100000) \div 1000 - 4 * 100000

\* the predator loop of updateAttractorsPredators; draws[i] are predator i's
\* four draws of Math.random() (position, then timer), used when it relocates
UpdatePredators(preds, dt, draws) ==
    [i \in DOMAIN preds |->
        IF ~preds[i].active THEN preds[i]
        ELSE IF Relocates(preds[i], dt)
        THEN [preds[i] EXCEPT !.position = getRandomPosition(draws[i]),
                              !.timer = ResetTimer(draws[i][4])]
        ELSE [preds[i] EXCEPT !.timer = preds[i].timer - dt]]

\* a Vector3 object: the one new Array(n).fill(new THREE.Vector3()) puts in every
\* entry, the clone assigned to entry i, or the one a source's position field holds
FilledObject(array) == [kind |-> "fill", array |-> array, index |-> 0]
ClonedObject(array, i) == [kind |-> "clone", array |-> array, index |-> i]
SourceObject(array, i) == [kind |-> "source", array |-> array, index |-> i]

\* the last index of a loop that wrote the object entry j holds (0: none did)
LastWriter(objects, written, j) ==
    LET writers == {i \in written : objects[i] = objects[j]}
    IN  IF writers = {} THEN 0 ELSE CHOOSE i \in writers : \A k \in writers : k <= i

\* the uniforms after updateAttractorsPredators: every active food's position is
\* copied into the object its entry holds, a predator's only when it relocated;
\* an entry reads the object it holds
EnvUniforms(uniforms, objects, food, preds, newFood, newPreds, dt) ==
    [uniforms EXCEPT
        !.foodPositions =
            [j \in DOMAIN food |->
                LET i == LastWriter(objects.foodPositions,
                                    {k \in DOMAIN food : food[k].active}, j)
                IN  IF i # 0 THEN newFood[i].position ELSE uniforms.foodPositions[j]],
        !.predatorPositions =
            [j \in DOMAIN preds |->
                LET i == LastWriter(objects.predatorPositions,
                                    {k \in DOMAIN preds : Relocates(preds[k], dt)}, j)
                IN  IF i # 0 THEN newPreds[i].position
                    ELSE uniforms.predatorPositions[j]]]

\* ------------------------------------------------------------------- state
VARIABLES
    pc,                   \* where the animation loop stands
    PARAMS,               \* the tunables
    velocityUniforms,     \* velocityVariable.material.uniforms
    positionUniforms,     \* positionVariable.material.uniforms
    foodSources,          \* [position, orbitParams, active] of each food source
    predatorSources,      \* [position, timer, active] of each predator
    renderTargets,        \* renderTargets[variable][index]: a texture of NUM_BIRDS texels
    currentTextureIndex,  \* gpuCompute.currentTextureIndex
    clock,                \* THREE.Clock: [running, elapsedTime]
    delta,                \* animate's delta
    time,                 \* animate's time
    birdMesh,             \* the positions and velocities read back for the instances
    frames,               \* frames run so far
    guiChanges,           \* GUI changes made so far
    twin,                 \* a second run fed the same frame times (off in Spec)
    error,                \* what gpuCompute.init() returned to initGPUCompute
    pendingFrames,        \* calls of animate that are due: the module's last line,
                          \* or the callbacks requestAnimationFrame holds
    uniformObjects        \* the Vector3 object each entry of the foodPositions and
                          \* predatorPositions uniform arrays holds

vars ==
    << pc, PARAMS, velocityUniforms, positionUniforms, foodSources, predatorSources,
       renderTargets, currentTextureIndex, clock, delta, time, birdMesh, frames,
       guiChanges, twin, error, pendingFrames, uniformObjects >>

FoodIds == 1 .. MAX_FOOD
PredatorIds == 1 .. MAX_PREDATORS

\* the outcomes of normalize(vec3(0.0)) a build can produce
NormalizeZero == {"nan", "zero"}

\* raw clock.getDelta() results of a running clock, in ms
RawFrameTimes == {16, 500}

\* ------------------------------------------------ the initial agent fields
\* agents 110 units apart, one column on the +x face, one row on the -y face
SpreadPosition(i) ==
    Vec(BOUNDS_HALF - 1 - 110 * FP * (i % WIDTH),
        110 * FP * (i \div WIDTH) - BOUNDS_HALF, 0)

\* agents 2 units apart around the origin
ClusterPosition(i) == Vec(2 * FP * (i % WIDTH), 2 * FP * (i \div WIDTH), 0)

InitialFields ==
    { [position |-> [i \in Agents |-> SpreadPosition(i)],
       velocity |-> [i \in Agents |-> Vec(3 * FP, -2 * FP, FP)]],
      [position |-> [i \in Agents |-> ClusterPosition(i)],
       velocity |-> [i \in Agents |-> Vec(3 * FP, ((i % 3) - 1) * FP, 0)]],
      [position |-> [i \in Agents |-> ClusterPosition(i)],
       velocity |-> [i \in Agents |-> IF i % 2 = 1 THEN Zero ELSE Vec(3 * FP, 0, -FP)]] }

\* the draws of Math.random() in initAttractorsPredators
InitialOrbitDraws == { <<0, 500, 0, 500, 500, 0>> }
InitialPredatorDraws == { <<500, 200, 500, 0>>, <<500, 200, 500, 5>>, <<0, 0, 999, 5>> }

\* the draws of Math.random() when a predator relocates. The timer draw 1000
\* stands for the largest doubles below 1 (1 - 2^-52, 1 - 2^-53): with them
\* 20 + r * 8 rounds to 28, so the timer is reset to exactly 24 s
RelocationDraws == { <<500, 200, 500, 0>>, <<999, 999, 0, 1000>> }

\* ---------------------------------------------------------------- init()
\* what gpuCompute.init() returns: null, or the error it found
NoError == "null"
InitErrors == {"No support for vertex shader textures."}

\* foodSources and predatorSources after initAttractorsPredators
InitialFoodSources(orbitDraws) ==
    [i \in FoodIds |->
        [position |-> InitialFoodPosition(OrbitParams(orbitDraws[i])),
         orbitParams |-> OrbitParams(orbitDraws[i]),
         active |-> TRUE]]

InitialPredatorSources(predatorDraws) ==
    [i \in PredatorIds |->
        [position |-> getRandomPosition(predatorDraws[i]),
         timer |-> (predatorDraws[i][4] * PREDATOR_LIFETIME) \div 1000,
         active |-> TRUE]]

\* the velocity uniforms after initGPUCompute and initAttractorsPredators
InitialVelocityUniforms(orbitDraws, predatorDraws, params) ==
    [time |-> 0, delta |-> 0,
     separationDistance |-> params.separationDistance,
     alignmentDistance |-> params.alignmentDistance,
     cohesionDistance |-> params.cohesionDistance,
     freedomFactor |-> params.freedomFactor,
     foodPositions |->
         [i \in FoodIds |-> InitialFoodPosition(OrbitParams(orbitDraws[i]))],
     foodActive |-> [i \in FoodIds |-> TRUE],
     predatorPositions |-> [i \in PredatorIds |-> getRandomPosition(predatorDraws[i])],
     predatorActive |-> [i \in PredatorIds |-> TRUE],
     foodWeight |-> params.foodWeight,
     predatorWeight |-> params.predatorWeight,
     foodRadius |-> params.foodRadius,
     foodOrbitSpeed |-> params.foodOrbitSpeed,
     predatorRadius |-> params.predatorRadius,
     separationWeight |-> params.separationWeight,
     alignmentWeight |-> params.alignmentWeight,
     cohesionWeight |-> params.cohesionWeight,
     maxSpeed |-> params.maxSpeed,
     maxSteerForce |-> params.maxSteerForce]

\* the render targets gpuCompute.init() creates and fills with the initial
\* textures; none when it returns an error
InitialRenderTargets(field, err) ==
    IF err = NoError
    THEN [position |-> <<field.position, field.position>>,
          velocity |-> <<field.velocity, field.velocity>>]
    ELSE [position |-> << >>, velocity |-> << >>]

\* the uniform arrays of initGPUCompute: one object in every entry of an array
FilledUniformObjects ==
    [foodPositions |-> [i \in FoodIds |-> FilledObject("food")],
     predatorPositions |-> [i \in PredatorIds |-> FilledObject("predator")]]

\* an initAttractorsPredators that stores the predator's own position object
AssignSources(objects) ==
    [foodPositions |->
         [i \in FoodIds |-> ClonedObject("food", i)] @@ objects.foodPositions,
     predatorPositions |->
         [i \in PredatorIds |-> SourceObject("predator", i)] @@ objects.predatorPositions]

\* initAttractorsPredators assigns a clone to entry i for every source i
AssignClones(objects) ==
    [foodPositions |->
         [i \in FoodIds |-> ClonedObject("food", i)] @@ objects.foodPositions,
     predatorPositions |->
         [i \in PredatorIds |-> ClonedObject("predator", i)] @@ objects.predatorPositions]

InitialUniformObjects == AssignClones(FilledUniformObjects)

InitialBirdMesh ==
    [position |-> [i \in Agents |-> Zero], velocity |-> [i \in Agents |-> Zero]]

\* the state when init() has returned without an error and the module's last
\* line is about to call animate()
InitState(field, orbitDraws, predatorDraws, params) ==
    /\ pc = "idle"
    /\ PARAMS = params
    /\ foodSources = InitialFoodSources(orbitDraws)
    /\ predatorSources = InitialPredatorSources(predatorDraws)
    /\ velocityUniforms = InitialVelocityUniforms(orbitDraws, predatorDraws, params)
    /\ positionUniforms = [delta |-> 0]
    /\ renderTargets = InitialRenderTargets(field, NoError)
    /\ currentTextureIndex = 0
    /\ clock = [running |-> FALSE, elapsedTime |-> 0]
    /\ delta = 0
    /\ time = 0
    /\ birdMesh = InitialBirdMesh
    /\ frames = 0
    /\ guiChanges = 0
    /\ error = NoError
    /\ pendingFrames = 1
    /\ uniformObjects = InitialUniformObjects

\* ---------------------------------------------------------- a second run
\* The second run starts from the same agent field, tunables, food and predators
\* and is fed the same frame times; it draws its own Math.random() results.
TwinOff == [on |-> FALSE]

TwinOf(field, predatorDraws) ==
    [on |-> TRUE,
     predatorSources |->
         [i \in PredatorIds |->
             [position |-> getRandomPosition(predatorDraws[i]),
              timer |-> (predatorDraws[i][4] * PREDATOR_LIFETIME) \div 1000,
              active |-> TRUE]],
     predatorPositions |-> [i \in PredatorIds |-> getRandomPosition(predatorDraws[i])],
     position |-> field.position,
     velocity |-> field.velocity,
     nextVelocity |-> field.velocity]

\* the second run's updateAttractorsPredators, with its own draws
TwinEnvironment(tw, uniforms, dt, draws) ==
    IF ~tw.on THEN tw
    ELSE LET newPreds == UpdatePredators(tw.predatorSources, dt, draws)
         IN  [tw EXCEPT
                 !.predatorSources = newPreds,
                 !.predatorPositions =
                     [i \in PredatorIds |->
                         IF Relocates(tw.predatorSources[i], dt) THEN newPreds[i].position
                         ELSE tw.predatorPositions[i]]]

\* the second run's velocity pass
TwinVelocity(tw, uniforms, ub) ==
    IF ~tw.on THEN tw
    ELSE [tw EXCEPT
             !.nextVelocity =
                 VelocityPass(tw.position, tw.velocity,
                              [uniforms EXCEPT !.predatorPositions = tw.predatorPositions],
                              ub)]

\* the second run's position pass and switch of render targets
TwinPosition(tw, uniforms) ==
    IF ~tw.on THEN tw
    ELSE [tw EXCEPT !.position = PositionPass(tw.position, tw.velocity, uniforms),
                    !.velocity = tw.nextVelocity]

Init ==
    /\ \E field \in InitialFields :
       \E orbitDraws \in [FoodIds -> InitialOrbitDraws] :
       \E predatorDraws \in [PredatorIds -> InitialPredatorDraws] :
           InitState(field, orbitDraws, predatorDraws, PARAMS0)
    /\ twin = TwinOff

\* the texture of a variable at an index (render targets are numbered 0 and 1)
Texture(targets, variable, index) == targets[variable][index + 1]

\* a pass that would read the velocity the same compute() has just rendered
DependencyTextureFresh(targets, variable, current) ==
    IF variable = "velocity" THEN Texture(targets, variable, WriteIndex(current))
    ELSE Texture(targets, variable, ReadIndex(current))

\* the texture compute() binds to a pass for a dependency: the variable's
\* render target of the current index
DependencyTexture(targets, variable, current) ==
    Texture(targets, variable, ReadIndex(current))

\* ------------------------------------------------------------- GUI change
\* a controller sets PARAMS[k] and then calls its onChange handler
GuiChange ==
    /\ pc = "idle"
    /\ guiChanges < MaxGuiChanges
    /\ \E k \in Tunables : \E v \in GuiValues(k) :
        /\ PARAMS' = [PARAMS EXCEPT ![k] = v]
        /\ velocityUniforms' =
               IF k \in OnChangeUpdateUniforms
               THEN updateUniforms(PARAMS', velocityUniforms)
               ELSE velocityUniforms
    /\ guiChanges' = guiChanges + 1
    /\ UNCHANGED << pc, positionUniforms, foodSources, predatorSources, renderTargets,
                    currentTextureIndex, clock, delta, time, birdMesh, frames, twin,
                    error, pendingFrames, uniformObjects >>

\* -------------------------------------------------------------- animate()
\* clock.getDelta(): the first call starts the clock and returns 0
getDelta(c, raw) ==
    IF c.running THEN [clock |-> [c EXCEPT !.elapsedTime = c.elapsedTime + raw], diff |-> raw]
    ELSE [clock |-> [c EXCEPT !.running = TRUE], diff |-> 0]

\* a delta without the clamp
FrameDeltaUnclamped(diff, params) == diff * params.timeScale

\* Math.min(clock.getDelta(), 0.1) * PARAMS.timeScale
FrameDelta(diff, params) == Min(diff, MaxFrameDelta) * params.timeScale

\* requestAnimationFrame(animate); delta and time are computed
AnimateDelta(raws) ==
    /\ pc = "idle"
    /\ frames < MaxFrames
    /\ pendingFrames > 0
    /\ pendingFrames' = (pendingFrames - 1) + 1
    /\ \E raw \in raws :
        LET got == getDelta(clock, raw)
        IN  /\ clock' = got.clock
            /\ delta' = FrameDelta(got.diff, PARAMS)
            /\ time' = got.clock.elapsedTime
    /\ pc' = "environment"
    /\ UNCHANGED << PARAMS, velocityUniforms, positionUniforms, foodSources,
                    predatorSources, renderTargets, currentTextureIndex, birdMesh,
                    frames, guiChanges, twin, error, uniformObjects >>

\* updateAttractorsPredators(delta, time)
AnimateEnvironment ==
    /\ pc = "environment"
    /\ \E draws \in [PredatorIds -> RelocationDraws] :
        LET newFood == UpdateFood(foodSources, time, PARAMS)
            newPreds == UpdatePredators(predatorSources, delta, draws)
        IN  /\ foodSources' = newFood
            /\ predatorSources' = newPreds
            /\ velocityUniforms' =
                   EnvUniforms(velocityUniforms, uniformObjects, foodSources,
                               predatorSources, newFood, newPreds, delta)
    /\ \E twinDraws \in (IF twin.on THEN [PredatorIds -> RelocationDraws]
                         ELSE {[i \in PredatorIds |-> <<0, 0, 0, 0>>]}) :
        twin' = TwinEnvironment(twin, velocityUniforms, delta, twinDraws)
    /\ pc' = "uniforms"
    /\ UNCHANGED << PARAMS, positionUniforms, renderTargets, currentTextureIndex, clock,
                    delta, time, birdMesh, frames, guiChanges,
                    error, pendingFrames, uniformObjects >>

\* the time and delta uniforms are written
AnimateUniforms ==
    /\ pc = "uniforms"
    /\ velocityUniforms' = [velocityUniforms EXCEPT !.time = time, !.delta = delta]
    /\ positionUniforms' = [positionUniforms EXCEPT !.delta = delta]
    /\ pc' = "velocity"
    /\ UNCHANGED << PARAMS, foodSources, predatorSources, renderTargets,
                    currentTextureIndex, clock, delta, time, birdMesh, frames,
                    guiChanges, twin,
                    error, pendingFrames, uniformObjects >>

\* gpuCompute.compute(), first variable: the velocity shader renders into the
\* velocity variable's other render target
ComputeVelocity ==
    /\ pc = "velocity"
    /\ error = NoError
    /\ \E ub \in NormalizeZero :
        /\ renderTargets' =
            [renderTargets EXCEPT
                !.velocity[WriteIndex(currentTextureIndex) + 1] =
                    VelocityPass(
                        DependencyTexture(renderTargets, "position", currentTextureIndex),
                        DependencyTexture(renderTargets, "velocity", currentTextureIndex),
                        velocityUniforms, ub)]
        /\ twin' = TwinVelocity(twin, velocityUniforms, ub)
    /\ pc' = "position"
    /\ UNCHANGED << PARAMS, velocityUniforms, positionUniforms, foodSources,
                    predatorSources, currentTextureIndex, clock, delta, time, birdMesh,
                    frames, guiChanges,
                    error, pendingFrames, uniformObjects >>

\* gpuCompute.compute(), second variable: the position shader renders into the
\* position variable's other render target; then the current index is switched
ComputePosition ==
    /\ pc = "position"
    /\ renderTargets' =
           [renderTargets EXCEPT
               !.position[WriteIndex(currentTextureIndex) + 1] =
                   PositionPass(
                       DependencyTexture(renderTargets, "position", currentTextureIndex),
                       DependencyTexture(renderTargets, "velocity", currentTextureIndex),
                       positionUniforms)]
    /\ currentTextureIndex' = WriteIndex(currentTextureIndex)
    /\ twin' = TwinPosition(twin, positionUniforms)
    /\ pc' = "instances"
    /\ UNCHANGED << PARAMS, velocityUniforms, positionUniforms, foodSources,
                    predatorSources, clock, delta, time, birdMesh, frames, guiChanges,
                    error, pendingFrames, uniformObjects >>

\* a read-back of the render target compute() has just switched away from
getCurrentRenderTargetStale(targets, variable, current) ==
    Texture(targets, variable, 1 - current)

\* the render target updateBirdInstances reads back
getCurrentRenderTarget(targets, variable, current) == Texture(targets, variable, current)

\* updateBirdInstances(), then composer.render(): the frame is over
AnimateInstances ==
    /\ pc = "instances"
    /\ birdMesh' =
           [position |-> getCurrentRenderTarget(renderTargets, "position", currentTextureIndex),
            velocity |-> getCurrentRenderTarget(renderTargets, "velocity", currentTextureIndex)]
    /\ frames' = frames + 1
    /\ pc' = "idle"
    /\ UNCHANGED << PARAMS, velocityUniforms, positionUniforms, foodSources,
                    predatorSources, renderTargets, currentTextureIndex, clock, delta,
                    time, guiChanges, twin,
                    error, pendingFrames, uniformObjects >>

\* animate() after its first two lines
AnimateBody ==
    \/ AnimateEnvironment
    \/ AnimateUniforms
    \/ ComputeVelocity
    \/ ComputePosition
    \/ AnimateInstances

Animate == AnimateDelta(RawFrameTimes) \/ AnimateBody

\* the animation loop alone: no tunable is changed
Next == Animate

Spec == Init /\ [][Next]_vars

\* GUI changes between frames that arrive 500 ms apart, from one initial state
\* in which no predator relocates within the run
InitGui ==
    /\ InitState([position |-> [i \in Agents |-> ClusterPosition(i)],
                  velocity |-> [i \in Agents |-> Vec(3 * FP, ((i % 3) - 1) * FP, 0)]],
                 [i \in FoodIds |-> <<0, 500, 0, 500, 500, 0>>],
                 [i \in PredatorIds |-> <<500, 200, 500, 500>>], PARAMS0)
    /\ twin = TwinOff

\* the frame times of the runs with GUI changes, in ms
GuiFrameTimes == {500}

NextGui == GuiChange \/ AnimateDelta(GuiFrameTimes) \/ AnimateBody

SpecGui == InitGui /\ [][NextGui]_vars

\* the tunables after the GUI has set every weight and freedomFactor to 0 and
\* timeScale to 10
ZeroForceParams ==
    [PARAMS0 EXCEPT !.separationWeight = 0, !.alignmentWeight = 0, !.cohesionWeight = 0,
                    !.foodWeight = 0, !.predatorWeight = 0, !.freedomFactor = 0,
                    !.timeScale = 1000]

\* the first frame is run from fields whose agents all move
InitZeroForce ==
    /\ \E field \in {f \in InitialFields : \A i \in Agents : f.velocity[i] # Zero} :
       \E predatorDraws \in [PredatorIds -> InitialPredatorDraws] :
           InitState(field, [i \in FoodIds |-> <<0, 500, 0, 500, 500, 0>>],
                     predatorDraws, ZeroForceParams)
    /\ twin = TwinOff

SpecZeroForce == InitZeroForce /\ [][Next]_vars

\* one agent at rest near a predator that sits at the origin: the agent's
\* texel and its position, from one step of FP to one unit inside
\* predatorRadius (at each of them a 16 ms frame changes the velocity by at
\* least one step of FP); every other agent is hundreds of units away
FleeAgents == {0, 4}
FleePositions ==
    { Vec(1, 0, 0), Vec(0, -35 * FP, 0), Vec(-40 * FP, 0, 40 * FP),
      Vec(30 * FP, 30 * FP, -30 * FP), Vec(69 * FP, 0, 0) }

FleeFields ==
    { [position |-> [i \in Agents |->
                        IF i = a THEN p
                        ELSE [SpreadPosition(i) EXCEPT !.z = BOUNDS_HALF - 1]],
       velocity |-> [i \in Agents |-> IF i = a THEN Zero ELSE Vec(3 * FP, -2 * FP, FP)]] :
      a \in FleeAgents, p \in FleePositions }

\* Math.random() draws that put the first predator at the origin and the others
\* in a corner, with 10 s on their timers, and the food on its widest orbit
FleePredatorDraws ==
    [i \in PredatorIds |-> IF i = 1 THEN <<500, 250, 500, 500>> ELSE <<0, 0, 999, 500>>]
FleeOrbitDraws == [i \in FoodIds |-> <<999, 500, 0, 500, 500, 0>>]

InitFlee ==
    /\ \E field \in FleeFields : InitState(field, FleeOrbitDraws, FleePredatorDraws, PARAMS0)
    /\ twin = TwinOff

SpecFlee == InitFlee /\ [][Next]_vars

\* the GUI sets timeScale to 0 between two frames of a run that started with
\* the shipped tunables (no GUI event is handled before the first frame: the
\* module calls init() and animate() in one go)
InitPause ==
    /\ \E field \in InitialFields :
       \E predatorDraws \in [PredatorIds -> InitialPredatorDraws] :
           InitState(field, [i \in FoodIds |-> <<0, 500, 0, 500, 500, 0>>],
                     predatorDraws, PARAMS0)
    /\ twin = TwinOff

PauseChange ==
    /\ frames >= 1
    /\ GuiChange
    /\ PARAMS'.timeScale = 0

NextPause == PauseChange \/ Animate

SpecPause == InitPause /\ [][NextPause]_vars

\* two runs from one initial state whose predator is next to the agents and
\* relocates in the first frame
InitTwin ==
    \E field \in {f \in InitialFields : \A i \in Agents : f.velocity[i] # Zero
                                                        /\ f.position[i] = ClusterPosition(i)} :
    \E predatorDraws \in [PredatorIds -> {<<500, 200, 500, 0>>, <<500, 200, 500, 5>>}] :
        /\ InitState(field, [i \in FoodIds |-> <<0, 500, 0, 500, 500, 0>>],
                     predatorDraws, PARAMS0)
        /\ twin = TwinOf(field, predatorDraws)

SpecTwin == InitTwin /\ [][Next]_vars

\* ----------------------------------------------------------- module start
\* the module is evaluated up to its last two lines: nothing is set up yet
InitStart ==
    /\ pc = "uninitialized"
    /\ PARAMS = PARAMS0
    /\ foodSources = << >>
    /\ predatorSources = << >>
    /\ velocityUniforms = << >>
    /\ positionUniforms = << >>
    /\ renderTargets = << >>
    /\ currentTextureIndex = 0
    /\ clock = [running |-> FALSE, elapsedTime |-> 0]
    /\ delta = 0
    /\ time = 0
    /\ birdMesh = << >>
    /\ frames = 0
    /\ guiChanges = 0
    /\ twin = TwinOff
    /\ error = NoError
    /\ pendingFrames = 0
    /\ uniformObjects = << >>

\* the fields the runs from the module start use
StartFields == {f \in InitialFields : \A i \in Agents : f.position[i] = SpreadPosition(i)}

\* init(): initGPUCompute logs the error gpuCompute.init() returns, if any, and
\* init() goes on; then the module's last line is about to call animate()
ModuleStart ==
    /\ pc = "uninitialized"
    /\ \E field \in StartFields :
       \E orbitDraws \in [FoodIds -> InitialOrbitDraws] :
       \E predatorDraws \in [PredatorIds -> InitialPredatorDraws] :
       \E err \in {NoError} \cup InitErrors :
           /\ error' = err
           /\ renderTargets' = InitialRenderTargets(field, err)
           /\ foodSources' = InitialFoodSources(orbitDraws)
           /\ predatorSources' = InitialPredatorSources(predatorDraws)
           /\ velocityUniforms' = InitialVelocityUniforms(orbitDraws, predatorDraws, PARAMS)
    /\ positionUniforms' = [delta |-> 0]
    /\ uniformObjects' = InitialUniformObjects
    /\ birdMesh' = InitialBirdMesh
    /\ pendingFrames' = pendingFrames + 1
    /\ pc' = "idle"
    /\ UNCHANGED << PARAMS, currentTextureIndex, clock, delta, time, frames, guiChanges,
                    twin >>

\* gpuCompute.compute() with no render targets: it throws, animate() ends there
ComputeThrows ==
    /\ pc = "velocity"
    /\ error # NoError
    /\ frames' = frames + 1
    /\ pc' = "idle"
    /\ UNCHANGED << PARAMS, velocityUniforms, positionUniforms, foodSources,
                    predatorSources, renderTargets, currentTextureIndex, clock, delta,
                    time, birdMesh, guiChanges, twin, error, pendingFrames,
                    uniformObjects >>

NextStart == ModuleStart \/ Animate \/ ComputeThrows

SpecStart == InitStart /\ [][NextStart]_vars

\* ============================================================ properties
\* the textures of the current index, and those of the other index (after
\* compute(): the textures the frame started from)
CurrentPosition == Texture(renderTargets, "position", currentTextureIndex)
CurrentVelocity == Texture(renderTargets, "velocity", currentTextureIndex)
OtherPosition == Texture(renderTargets, "position", 1 - currentTextureIndex)
OtherVelocity == Texture(renderTargets, "velocity", 1 - currentTextureIndex)

\* C1: when compute() has run, every agent's new position is the position
\* shader's output on the start-of-frame position and velocity textures, and
\* every agent's new velocity is the velocity shader's output on the same two
\* textures: no pass has read a texel written in this frame.
C1_PassesReadFrameStart ==
    pc = "instances" =>
        /\ CurrentPosition = PositionPass(OtherPosition, OtherVelocity, positionUniforms)
        /\ \E ub \in NormalizeZero :
               CurrentVelocity =
                   VelocityPass(OtherPosition, OtherVelocity, velocityUniforms, ub)

\* C1 witness: compute() has run with a delta > 0 and some agent's position
\* would be another one had the position pass read the new velocity
C1_Witness ==
    /\ pc = "instances"
    /\ delta > 0
    /\ \E i \in Agents :
           /\ ~CurrentVelocity[i].nan
           /\ CurrentPosition[i] # OtherPosition[i]
           /\ PositionShader(i, OtherPosition, CurrentVelocity, positionUniforms)
                  # CurrentPosition[i]

\* C2: after the velocity pass every stored velocity has a magnitude of at most
\* the maxSpeed uniform of that pass.
C2_SpeedWithinMaxSpeed ==
    pc = "position" =>
        \A i \in Agents :
            LET v == Texture(renderTargets, "velocity", WriteIndex(currentTextureIndex))[i]
            IN  ~v.nan /\ ~LenGT(v, velocityUniforms.maxSpeed)

\* a coordinate in [-BOUNDS/2, BOUNDS/2)
InBounds(c) == -BOUNDS_HALF <= c /\ c < BOUNDS_HALF

\* C3: every coordinate of every position, in the initial field and after every
\* position pass, lies in [-BOUNDS/2, BOUNDS/2), and a position pass moves a
\* coordinate by velocity * delta up to a multiple of BOUNDS.
C3_PositionWrapped ==
    /\ \A index \in {0, 1} : \A i \in Agents :
           LET p == Texture(renderTargets, "position", index)[i]
           IN  ~p.nan /\ InBounds(p.x) /\ InBounds(p.y) /\ InBounds(p.z)
    /\ pc = "instances" =>
           \A i \in Agents :
               LET moved == Add(OtherPosition[i],
                                Scale(OtherVelocity[i], positionUniforms.delta, 100000))
                   p == CurrentPosition[i]
               IN  /\ ~moved.nan
                   /\ (p.x - moved.x) % BOUNDS = 0
                   /\ (p.y - moved.y) % BOUNDS = 0
                   /\ (p.z - moved.z) % BOUNDS = 0

\* C4: the steering force the velocity pass turns into acceleration has, for
\* every agent, a magnitude of at most the maxSteerForce uniform.
C4_ForceWithinMaxSteerForce ==
    pc = "velocity" =>
        \A i \in Agents : \A ub \in NormalizeZero :
            LET force == TotalSteeringForce(i, CurrentPosition, CurrentVelocity,
                                            velocityUniforms, ub)
            IN  ~force.nan /\ ~LenGT(force, velocityUniforms.maxSteerForce)

\* C5: with the five weights and freedomFactor all 0, the velocity pass leaves
\* the velocity of every agent whose speed is within maxSpeed as it was.
C5_ZeroForceKeepsVelocity ==
    ( /\ pc = "position"
      /\ velocityUniforms.separationWeight = 0
      /\ velocityUniforms.alignmentWeight = 0
      /\ velocityUniforms.cohesionWeight = 0
      /\ velocityUniforms.foodWeight = 0
      /\ velocityUniforms.predatorWeight = 0
      /\ velocityUniforms.freedomFactor = 0 ) =>
        \A i \in Agents :
            LET old == CurrentVelocity[i]
                new == Texture(renderTargets, "velocity", WriteIndex(currentTextureIndex))[i]
            IN  (~old.nan /\ ~LenGT(old, velocityUniforms.maxSpeed)) => new = old

\* C6: two runs from the same agent field, tunables, food and predators that
\* are fed the same frame times hold the same agent field after every frame.
C6_TwoRunsAgree ==
    (twin.on /\ pc = "idle") =>
        /\ twin.position = CurrentPosition
        /\ twin.velocity = CurrentVelocity

\* the position range of getRandomPosition()
InRandomPositionRange(p) ==
    /\ ~p.nan
    /\ InBounds(p.x) /\ InBounds(p.z)
    /\ -((BOUNDS_HALF * 3) \div 10) <= p.y
    /\ p.y < (BOUNDS * 6) \div 10 - (BOUNDS_HALF * 3) \div 10

\* C7: in an environment update an active predator whose timer is at most the
\* frame's delta is relocated: its position is drawn anew, the position uniform
\* follows it and its timer is reset into [PREDATOR_LIFETIME - 4 s,
\* PREDATOR_LIFETIME + 4 s]; an active predator whose timer is larger keeps its
\* position and its timer decreases by exactly the frame's delta. So a timer T
\* runs out in the first update at which the deltas since add up to T or more.
C7_PredatorTimer ==
    [][(pc = "environment" /\ pc' = "uniforms") =>
        \A j \in PredatorIds :
            LET pred == predatorSources[j]
                new == predatorSources'[j]
            IN  pred.active =>
                    IF pred.timer <= delta
                    THEN /\ new.timer >= PREDATOR_LIFETIME - 4 * 100000
                         /\ new.timer <= PREDATOR_LIFETIME + 4 * 100000
                         /\ InRandomPositionRange(new.position)
                         /\ velocityUniforms'.predatorPositions[j] = new.position
                    ELSE /\ new.timer = pred.timer - delta
                         /\ new.timer > 0
                         /\ new.position = pred.position
                         /\ velocityUniforms'.predatorPositions[j]
                                = velocityUniforms.predatorPositions[j]]_vars

\* C7 witness: a predator whose timer was counted down in an earlier frame has
\* been relocated by an update with a delta > 0
C7_Witness ==
    /\ pc = "uniforms"
    /\ frames >= 1
    /\ delta > 0
    /\ \E j \in PredatorIds :
           /\ predatorSources[j].active
           /\ \E draw \in RelocationDraws :
                  /\ predatorSources[j].timer = ResetTimer(draw[4])
                  /\ predatorSources[j].position = getRandomPosition(draw)

\* C8 as claimed: after an environment update every active food source is at
\* the position that the elapsed time and its orbitParams alone determine (the
\* trajectory with the base speed the program starts with), and the
\* orbitParams are as they were before the update.
C8_FoodOfTimeAndOrbitOnly ==
    [][(pc = "environment" /\ pc' = "uniforms") =>
        \A j \in FoodIds :
            /\ foodSources'[j].orbitParams = foodSources[j].orbitParams
            /\ foodSources[j].active =>
                   foodSources'[j].position =
                       FoodPosition(time, foodSources[j].orbitParams,
                                    PARAMS0.foodOrbitSpeed)]_vars

\* C8 amended: after an environment update every active food source is at the
\* position that the elapsed time, its orbitParams and the current
\* foodOrbitSpeed tunable determine, whatever its position was before, and no
\* step ever changes a food source's orbitParams.
C8_FoodOfTimeOrbitAndSpeed ==
    [][/\ \A j \in FoodIds : foodSources'[j].orbitParams = foodSources[j].orbitParams
       /\ (pc = "environment" /\ pc' = "uniforms") =>
              \A j \in FoodIds :
                  foodSources[j].active =>
                      /\ foodSources'[j].position =
                             FoodPosition(time, foodSources[j].orbitParams,
                                          PARAMS.foodOrbitSpeed)
                      /\ velocityUniforms'.foodPositions[j] = foodSources'[j].position]_vars

\* C8 witness: a food source has been moved by an update at a time > 0 while
\* foodOrbitSpeed is not the value the program starts with
C8_Witness ==
    /\ pc = "uniforms"
    /\ time > 0
    /\ PARAMS.foodOrbitSpeed # PARAMS0.foodOrbitSpeed
    /\ \E j \in FoodIds :
           /\ foodSources[j].active
           /\ foodSources[j].position # InitialFoodPosition(foodSources[j].orbitParams)

C10_TunablesReachNextFrame ==
    /\ \A k \in UpdatedUniforms : velocityUniforms[k] = PARAMS[k]
    /\ pc # "idle" =>
           \E diff \in {0} \cup GuiFrameTimes : delta = Min(diff, MaxFrameDelta) * PARAMS.timeScale
    /\ pc \in {"velocity", "position", "instances"} =>
           /\ velocityUniforms.delta = delta
           /\ positionUniforms.delta = delta
           /\ \A j \in FoodIds :
                  foodSources[j].active =>
                      velocityUniforms.foodPositions[j] =
                          FoodPosition(time, foodSources[j].orbitParams,
                                       PARAMS.foodOrbitSpeed)

\* C10 witness: the passes of a frame with a frame time > 0 are about to run
\* after the GUI has changed a tunable
C10_Witness ==
    /\ pc = "velocity"
    /\ guiChanges > 0
    /\ time > 0
    /\ \E k \in Tunables : PARAMS[k] # PARAMS0[k]

\* C11: when gpuCompute.init() has returned an error, initialization does not
\* complete normally and no frame is ever run: animate() is never called, so the
\* clock is never started and the loop never leaves its idle position.
C11_InitErrorFailsFast ==
    error # NoError => (pc \in {"uninitialized", "idle"} /\ ~clock.running /\ frames = 0)

\* C13: the delta a frame computes is min(raw frame time, 0.1 s) * timeScale,
\* where the raw frame time is what the clock advanced by; it is at least 0 and
\* at most 0.1 s * timeScale. That value is what the predator timers are
\* decreased by, what both delta uniforms are set to, and what the velocity
\* pass and the position pass of the frame compute with.
C13_OneClampedDelta ==
    [][/\ (pc = "idle" /\ pc' = "environment") =>
              LET raw == clock'.elapsedTime - clock.elapsedTime
              IN  /\ delta' = Min(raw, MaxFrameDelta) * PARAMS.timeScale
                  /\ delta' >= 0
                  /\ delta' <= MaxFrameDelta * PARAMS.timeScale
       /\ pc # "idle" => delta' = delta
       /\ (pc = "environment" /\ pc' = "uniforms") =>
              \A j \in PredatorIds :
                  \/ predatorSources'[j].timer = predatorSources[j].timer - delta
                  \/ predatorSources[j].timer - delta <= 0
       /\ (pc = "uniforms" /\ pc' = "velocity") =>
              /\ velocityUniforms'.delta = delta
              /\ positionUniforms'.delta = delta
       /\ (pc = "velocity" /\ pc' = "position") =>
              \E ub \in NormalizeZero :
                  Texture(renderTargets', "velocity", WriteIndex(currentTextureIndex)) =
                      VelocityPass(CurrentPosition, CurrentVelocity,
                                   [velocityUniforms EXCEPT !.delta = delta], ub)
       /\ (pc = "position" /\ pc' = "instances") =>
              Texture(renderTargets', "position", WriteIndex(currentTextureIndex)) =
                  PositionPass(CurrentPosition, CurrentVelocity, [delta |-> delta])]_vars

\* C13 witness: the passes of a frame whose raw time was above 0.1 s have run
\* with the clamped delta under a timeScale other than 1, and moved an agent
C13_Witness ==
    /\ pc = "instances"
    /\ PARAMS.timeScale # 100
    /\ delta = MaxFrameDelta * PARAMS.timeScale
    /\ delta > 0
    /\ CurrentPosition # OtherPosition

\* the dot product of two vectors
Dot(a, b) == a.x * b.x + a.y * b.y + a.z * b.z

\* the frame started with agent i at rest within predatorRadius of one active
\* predator at the origin, no other predator, no food and no sampled neighbour
\* in range, under the shipped tunables
FleeCase(i) ==
    LET position == CurrentPosition[i]
        U == velocityUniforms
        InRange(j) == /\ U.predatorActive[j]
                      /\ LenPos(Sub(position, U.predatorPositions[j]))
                      /\ LenLT(Sub(position, U.predatorPositions[j]), U.predatorRadius)
    IN  /\ PARAMS = PARAMS0
        /\ CurrentVelocity[i] = Zero
        /\ \E j \in PredatorIds :
               /\ InRange(j)
               /\ U.predatorPositions[j] = Zero
               /\ \A k \in PredatorIds \ {j} : ~InRange(k)
        /\ \A f \in FoodIds :
               ~(U.foodActive[f] /\ LenLT(Sub(U.foodPositions[f], position), U.foodRadius))
        /\ Neighbours(NumSamples, i, CurrentPosition, CurrentVelocity, U) = NoNeighbours

\* the velocity the velocity pass of this frame wrote for agent i points away
\* from the origin
FleesOrigin(i) ==
    /\ ~OtherVelocity[i].nan
    /\ Dot(OtherVelocity[i], CurrentPosition[i]) > 0

\* C14 as stated: once the velocity pass of a frame has run, an agent that
\* started the frame at rest at distance d, 0 < d < predatorRadius, from a
\* single active predator at the origin, with no food in range, has a new
\* velocity whose dot product with the vector from the predator to the agent
\* is strictly positive.
C14_FleesAfterOneStep ==
    pc = "position" => \A i \in Agents : FleeCase(i) => FleesOrigin(i)

\* C14 amended: the same, for a velocity pass whose delta is positive (the
\* first frame of a run, and every frame under timeScale 0, has delta 0 and
\* leaves the velocity at zero).
C14_FleesAfterOnePositiveStep ==
    pc = "position" =>
        \A i \in Agents : (FleeCase(i) /\ velocityUniforms.delta > 0) => FleesOrigin(i)

\* C14 witness: a velocity pass with a positive delta has turned an agent in
\* that situation away from the predator while its freedom force fired
C14_Witness ==
    /\ pc = "position"
    /\ \E i \in Agents :
           /\ FleeCase(i)
           /\ velocityUniforms.delta > 0
           /\ FreedomSteering(i, velocityUniforms) # Zero
           /\ FleesOrigin(i)

\* the sampleUV values the sampling loop of the velocity shader computes for
\* texel i when its uniforms are U: each is computed from uv and the loop index
SampleCoordinates(i, U) == [k \in 0 .. NumSamples - 1 |-> SampleUV(i, k)]

\* C15: the neighbour sample coordinates of an agent depend on the simulation
\* time: in a velocity pass at a time after 0, some agent's sample coordinates
\* differ from those it would have at time 0 with everything else equal.
C15_SamplesDependOnTime ==
    (pc = "velocity" /\ velocityUniforms.time > 0) =>
        \E i \in Agents :
            SampleCoordinates(i, velocityUniforms) #
                SampleCoordinates(i, [velocityUniforms EXCEPT !.time = 0])

\* C16: in the velocity pass no zero-length vector is normalized: for every
\* agent whose sampled neighbours within alignmentDistance have velocities that
\* sum to zero, alignment contributes nothing to the total force, whatever a
\* build makes of normalize(vec3(0.0)); likewise separation for a zero averaged
\* separation vector and cohesion for a cohesion centre at the agent.
C16_NormalizationsGuarded ==
    pc = "velocity" =>
        \A i \in Agents : \A ub \in NormalizeZero :
            LET U == velocityUniforms
                acc == Neighbours(NumSamples, i, CurrentPosition, CurrentVelocity, U)
            IN  /\ (acc.alignCount > 0 /\ acc.avgVelocity = Zero) =>
                       AlignmentSteering(acc, CurrentVelocity[i], U, ub) = Zero
                /\ (acc.separationCount > 0 /\ acc.separationForce = Zero) =>
                       SeparationSteering(acc, CurrentVelocity[i], U, ub) = Zero
                /\ (acc.cohesionCount > 0
                        /\ Scale(acc.avgPosition, 1, acc.cohesionCount) = CurrentPosition[i]) =>
                       CohesionSteering(acc, CurrentPosition[i], CurrentVelocity[i], U, ub)
                           = Zero

\* sample k of agent i is at distance exactly 0 from the agent
ZeroDistanceSample(i, k) ==
    LET diff == Sub(CurrentPosition[i], CurrentPosition[Texel(SampleUV(i, k))])
    IN  ~diff.nan /\ MaxAbs(diff) = 0

\* the accumulators of agent i after the first k samples of the coming pass
Accumulated(i, k) == Neighbours(k, i, CurrentPosition, CurrentVelocity, velocityUniforms)

\* C17: in the velocity pass, a sample at distance exactly 0 from the agent (the
\* agent itself or a coincident agent) leaves the separation, alignment and
\* cohesion accumulators and counts as they were before it; and a category
\* whose count is 0 after the sampling loop adds nothing to the total steering
\* force, whatever a build makes of a division by zero or normalize(vec3(0.0)).
C17_ZeroDistanceSkipped ==
    pc = "velocity" =>
        \A i \in Agents :
            /\ \A k \in 0 .. NumSamples - 1 :
                   ZeroDistanceSample(i, k) => Accumulated(i, k + 1) = Accumulated(i, k)
            /\ \A ub \in NormalizeZero :
                   LET acc == Accumulated(i, NumSamples)
                       U == velocityUniforms
                   IN  /\ acc.separationCount = 0 =>
                             SeparationSteering(acc, CurrentVelocity[i], U, ub) = Zero
                       /\ acc.alignCount = 0 =>
                             AlignmentSteering(acc, CurrentVelocity[i], U, ub) = Zero
                       /\ acc.cohesionCount = 0 =>
                             CohesionSteering(acc, CurrentPosition[i], CurrentVelocity[i], U, ub)
                                 = Zero

\* C17 witness: a velocity pass is about to run in which an agent that has
\* already accumulated a neighbour samples a texel at distance 0, and in which
\* an agent ends the loop with a category of count 0 next to one that counted
C17_Witness ==
    /\ pc = "velocity"
    /\ \E i \in Agents : \E k \in 1 .. NumSamples - 1 :
           /\ ZeroDistanceSample(i, k)
           /\ Accumulated(i, k) # NoNeighbours
    /\ \E i \in Agents :
           /\ Accumulated(i, NumSamples).separationCount = 0
           /\ Accumulated(i, NumSamples).alignCount > 0

\* C18: every predator position, at creation and after every relocation, has
\* X and Z in [-BOUNDS/2, BOUNDS/2) and Y in the sub-range of width 0.6 * BOUNDS
\* that is centred on 0, [-0.3 * BOUNDS, 0.3 * BOUNDS).
C18_PredatorRangeCentred ==
    pc # "uninitialized" =>
        \A j \in PredatorIds :
            LET p == predatorSources[j].position
            IN  /\ ~p.nan
                /\ InBounds(p.x) /\ InBounds(p.z)
                /\ -((BOUNDS * 3) \div 10) <= p.y
                /\ p.y < (BOUNDS * 3) \div 10

\* the Vector3 objects the entries of the two uniform arrays hold
UniformEntryObjects ==
    {uniformObjects.foodPositions[f] : f \in FoodIds}
        \cup {uniformObjects.predatorPositions[j] : j \in PredatorIds}

SetupComplete ==
    /\ DOMAIN renderTargets = {"position", "velocity"}
    /\ \A variable \in {"position", "velocity"} :
           /\ DOMAIN renderTargets[variable] = 1 .. 2
           /\ \A index \in 0 .. 1 :
                  DOMAIN Texture(renderTargets, variable, index) = Agents
    /\ DOMAIN foodSources = FoodIds
    /\ \A f \in FoodIds : foodSources[f].active
    /\ DOMAIN predatorSources = PredatorIds
    /\ \A j \in PredatorIds : predatorSources[j].active

\* C20: before setup nothing is pending and no frame has run; once setup has
\* run it is complete (agent field, food array and predator array populated,
\* all sources active) whenever a frame can run, and exactly one call of
\* animate is due at any time: every frame has scheduled exactly one successor.
C20_SetupOnceThenOneFramePending ==
    /\ pc = "uninitialized" => (pendingFrames = 0 /\ frames = 0 /\ ~clock.running)
    /\ pc # "uninitialized" => (SetupComplete /\ pendingFrames = 1)

\* an environment update has either counted predator j's timer down by exactly
\* the frame's delta or, only when that left nothing, reset it to
\* PREDATOR_LIFETIME - 4 s or more: so from a reset at least
\* PREDATOR_LIFETIME - 4 s of delta must add up before the timer runs out again
CountedDownOrReset(j) ==
    \/ predatorSources'[j].timer = predatorSources[j].timer - delta
    \/ /\ predatorSources[j].timer - delta <= 0
       /\ predatorSources'[j].timer >= PREDATOR_LIFETIME - 4 * 100000

\* C21 as stated: at the end of every environment update every active
\* predator's timer is strictly greater than 0 and strictly less than
\* PREDATOR_LIFETIME + 4 s, and a timer that was reset cannot run out again
\* before PREDATOR_LIFETIME - 4 s of delta have added up.
C21_TimerStrictlyInside ==
    [][(pc = "environment" /\ pc' = "uniforms") =>
        \A j \in PredatorIds :
            predatorSources'[j].active =>
                /\ predatorSources'[j].timer > 0
                /\ predatorSources'[j].timer < PREDATOR_LIFETIME + 4 * 100000
                /\ CountedDownOrReset(j)]_vars

\* C21 amended: the same with the upper end included: the timer is strictly
\* greater than 0 and at most PREDATOR_LIFETIME + 4 s.
C21_TimerInRange ==
    [][(pc = "environment" /\ pc' = "uniforms") =>
        \A j \in PredatorIds :
            predatorSources'[j].active =>
                /\ predatorSources'[j].timer > 0
                /\ predatorSources'[j].timer <= PREDATOR_LIFETIME + 4 * 100000
                /\ CountedDownOrReset(j)]_vars

\* C21 witness: the first update of a run, whose delta is 0, has found a timer
\* of exactly 0 and reset it with the largest jitter there is
C21_Witness ==
    /\ pc = "uniforms"
    /\ frames = 0
    /\ delta = 0
    /\ \E j \in PredatorIds :
           /\ predatorSources[j].active
           /\ predatorSources[j].timer = PREDATOR_LIFETIME + 4 * 100000

\* C22: a frame that runs with timeScale 0 leaves every predator's timer and
\* position as they were, puts every active food source where the clock time
\* puts it, and leaves the velocity and the position of every agent whose speed
\* is within maxSpeed and whose coordinates are in bounds as they were.
C22_PausedFrameKeepsState ==
    [][PARAMS.timeScale = 0 =>
        /\ (pc = "environment" /\ pc' = "uniforms") =>
               /\ predatorSources' = predatorSources
               /\ velocityUniforms'.predatorPositions = velocityUniforms.predatorPositions
               /\ \A f \in FoodIds :
                      foodSources[f].active =>
                          foodSources'[f].position =
                              FoodPosition(time, foodSources[f].orbitParams,
                                           PARAMS.foodOrbitSpeed)
        /\ (pc = "velocity" /\ pc' = "position") =>
               \A i \in Agents :
                   LET old == CurrentVelocity[i]
                   IN  (~old.nan /\ ~LenGT(old, velocityUniforms.maxSpeed)) =>
                           Texture(renderTargets', "velocity",
                                   WriteIndex(currentTextureIndex))[i] = old
        /\ (pc = "position" /\ pc' = "instances") =>
               \A i \in Agents :
                   LET old == CurrentPosition[i]
                   IN  (~old.nan /\ InBounds(old.x) /\ InBounds(old.y) /\ InBounds(old.z)) =>
                           Texture(renderTargets', "position",
                                   WriteIndex(currentTextureIndex))[i] = old]_vars

====
